---------------------------- MODULE Spec2Model ----------------------------
(***************************************************************************)
(* A model of the dynamic-DNS worker of src/src/index.ts: the credential   *)
(* decoder (constructClientOptions), the request parser                    *)
(* (constructDNSRecords), the reconciler (update) and the handler (fetch), *)
(* run against a DNS provider that holds zones and address records.        *)
(*                                                                         *)
(* Text is a sequence of one-character strings; the output of atob is a    *)
(* sequence of byte values (a JavaScript binary string).                   *)
(***************************************************************************)
EXTENDS Integers, Sequences, FiniteSets, TLC

(***************************************************************************)
(* Values of the JavaScript runtime.                                       *)
(***************************************************************************)
\* null / undefined: an absent header, an absent query parameter, an omitted field
\* (a text no string of the program equals)
Null == <<"null">>

\* the text of String(undefined), which atob receives when split(' ') has no second part
UndefinedText == <<"u", "n", "d", "e", "f", "i", "n", "e", "d">>

\* String.prototype.split(sep) for a one-character separator: the parts, in order
RECURSIVE SplitAcc(_, _, _)
SplitAcc(s, sep, cur) ==
    IF s = <<>> THEN <<cur>>
    ELSE IF Head(s) = sep THEN <<cur>> \o SplitAcc(Tail(s), sep, <<>>)
    ELSE SplitAcc(Tail(s), sep, Append(cur, Head(s)))

Split(s, sep) == SplitAcc(s, sep, <<>>)

\* String.prototype.includes(c) for a one-character needle
Includes(s, c) == \E i \in 1..Len(s) : s[i] = c

\* String.prototype.indexOf(c), 0-based, -1 when absent
IndexOf(s, c) ==
    IF \E i \in 1..Len(s) : s[i] = c
    THEN (CHOOSE i \in 1..Len(s) : s[i] = c /\ \A j \in 1..(i - 1) : s[j] # c) - 1
    ELSE -1

\* String.prototype.substring(from[, to]), 0-based, end exclusive
Substring(s, from, to) == SubSeq(s, from + 1, to)

(***************************************************************************)
(* atob: the forgiving-base64 decode of the runtime.  Its result is either *)
(* the decoded binary string or a thrown DOMException.                     *)
(***************************************************************************)
B64Chars ==
    <<"A", "B", "C", "D", "E", "F", "G", "H", "I", "J", "K", "L", "M",
      "N", "O", "P", "Q", "R", "S", "T", "U", "V", "W", "X", "Y", "Z",
      "a", "b", "c", "d", "e", "f", "g", "h", "i", "j", "k", "l", "m",
      "n", "o", "p", "q", "r", "s", "t", "u", "v", "w", "x", "y", "z",
      "0", "1", "2", "3", "4", "5", "6", "7", "8", "9", "+", "/">>

IsB64Char(c) == \E i \in 1..Len(B64Chars) : B64Chars[i] = c

B64Value(c) == (CHOOSE i \in 1..Len(B64Chars) : B64Chars[i] = c) - 1

AsciiWhitespace == {"\t", "\n", "\f", "\r", " "}

RECURSIVE StripWhitespace(_)
StripWhitespace(s) ==
    IF s = <<>> THEN <<>>
    ELSE IF Head(s) \in AsciiWhitespace THEN StripWhitespace(Tail(s))
    ELSE <<Head(s)>> \o StripWhitespace(Tail(s))

\* one or two trailing '=' are dropped when the length is a multiple of four
StripPadding(s) ==
    IF Len(s) % 4 = 0 /\ Len(s) >= 1 /\ s[Len(s)] = "="
    THEN IF Len(s) >= 2 /\ s[Len(s) - 1] = "="
         THEN SubSeq(s, 1, Len(s) - 2)
         ELSE SubSeq(s, 1, Len(s) - 1)
    ELSE s

\* the bytes of a run of base64 characters: 4 characters give 3 bytes, a trailing
\* 2 give 1 byte and a trailing 3 give 2 bytes (the spare low bits are discarded)
RECURSIVE DecodeGroups(_)
DecodeGroups(s) ==
    IF Len(s) >= 4 THEN
        LET n == B64Value(s[1]) * 262144 + B64Value(s[2]) * 4096
                 + B64Value(s[3]) * 64 + B64Value(s[4])
        IN  <<n \div 65536, (n \div 256) % 256, n % 256>>
              \o DecodeGroups(SubSeq(s, 5, Len(s)))
    ELSE IF Len(s) = 3 THEN
        LET n == B64Value(s[1]) * 4096 + B64Value(s[2]) * 64 + B64Value(s[3])
        IN  <<n \div 1024, (n \div 4) % 256>>
    ELSE IF Len(s) = 2 THEN
        LET n == B64Value(s[1]) * 64 + B64Value(s[2])
        IN  <<n \div 16>>
    ELSE <<>>

\* [ok |-> TRUE, value |-> bytes] or [ok |-> FALSE, value |-> <<>>] (a thrown DOMException)
Atob(data) ==
    LET s == StripPadding(StripWhitespace(data))
    IN  IF Len(s) % 4 = 1 \/ \E i \in 1..Len(s) : ~IsB64Char(s[i])
        THEN [ok |-> FALSE, value |-> <<>>]
        ELSE [ok |-> TRUE, value |-> DecodeGroups(s)]

(***************************************************************************)
(* Outcomes of a function of the program: a returned value, a thrown       *)
(* HttpError (statusCode, message) or any other thrown error.              *)
(***************************************************************************)
Return(v) == [kind |-> "return", value |-> v, statusCode |-> 0, message |-> <<>>]

HttpError(statusCode, message) ==
    [kind |-> "HttpError", value |-> Null, statusCode |-> statusCode, message |-> message]

OtherError(what) ==
    [kind |-> "Error", value |-> Null, statusCode |-> 0, message |-> <<what>>]

\* new Response(body, {status})
Response(body, status) == [status |-> status, body |-> body]

NoResponse == Response(<<>>, 0)

(***************************************************************************)
(* constructClientOptions                                                  *)
(***************************************************************************)
Colon == 58

\* /[\0-\x1F\x7F]/.test(decoded)
HasControlChar(decoded) ==
    \E i \in 1..Len(decoded) : decoded[i] \in 0..31 \/ decoded[i] = 127

\* a decoder that splits at the last colon
constructClientOptionsLastColon(authorization) ==
    IF authorization = Null \/ authorization = <<>>
    THEN HttpError(401, <<"API token missing.">>)
    ELSE
        LET parts   == Split(authorization, " ")
            data    == IF Len(parts) >= 2 THEN parts[2] ELSE UndefinedText
            decoded == Atob(data)
            index   == IF Includes(decoded.value, Colon)
                       THEN (CHOOSE i \in 1..Len(decoded.value) :
                                /\ decoded.value[i] = Colon
                                /\ \A j \in (i + 1)..Len(decoded.value) :
                                      decoded.value[j] # Colon) - 1
                       ELSE -1
        IN  IF ~decoded.ok THEN OtherError("InvalidCharacterError")
            ELSE IF index = -1 \/ HasControlChar(decoded.value)
            THEN HttpError(401, <<"Invalid API key or token.">>)
            ELSE Return([apiEmail |-> Substring(decoded.value, 0, index),
                         apiToken |-> Substring(decoded.value, index + 1,
                                                Len(decoded.value))])

constructClientOptions(authorization) ==
    IF authorization = Null \/ authorization = <<>>
    THEN HttpError(401, <<"API token missing.">>)
    ELSE
        LET parts   == Split(authorization, " ")
            data    == IF Len(parts) >= 2 THEN parts[2] ELSE UndefinedText
            decoded == Atob(data)
            index   == IndexOf(decoded.value, Colon)
        IN  IF ~decoded.ok THEN OtherError("InvalidCharacterError")
            ELSE IF index = -1 \/ HasControlChar(decoded.value)
            THEN HttpError(401, <<"Invalid API key or token.">>)
            ELSE Return([apiEmail |-> Substring(decoded.value, 0, index),
                         apiToken |-> Substring(decoded.value, index + 1,
                                                Len(decoded.value))])

(***************************************************************************)
(* constructDNSRecords.  A request carries the Authorization header, the   *)
(* CF-Connecting-IP header and the query parameters ip, myip and hostname, *)
(* each a text or Null when absent.                                        *)
(***************************************************************************)
Auto == <<"a", "u", "t", "o">>

\* a || b on texts: the empty string and null are falsy
OrElse(a, b) == IF a = Null \/ a = <<>> THEN b ELSE a

\* a record whose type is AAAA only when the address has a colon
DNSRecordColonIsAAAA(content, name) ==
    [content |-> content,
     name    |-> name,
     type    |-> IF Includes(content, ":") THEN "AAAA" ELSE "A",
     ttl     |-> 1]

DNSRecord(content, name) ==
    [content |-> content,
     name    |-> name,
     type    |-> IF Includes(content, ".") THEN "A" ELSE "AAAA",
     ttl     |-> 1]

\* a parser that looks for the hostname before it resolves auto
constructDNSRecordsHostnameFirst(request) ==
    LET param     == OrElse(request.ip, request.myip)
        ip        == IF param = Auto THEN request.cfip ELSE param
        hostnames == request.hostname
        parts     == Split(hostnames, ",")
    IN  IF param = Null
        THEN HttpError(422, <<"The \"ip\" parameter is required and cannot be empty. Specify ip=auto to use the client IP.">>)
        ELSE IF hostnames = Null
        THEN HttpError(422, <<"The \"hostname\" parameter is required and cannot be empty.">>)
        ELSE IF ip = Null
        THEN HttpError(500, <<"Request asked for ip=auto but client IP address cannot be determined.">>)
        ELSE Return([k \in 1..Len(parts) |-> DNSRecord(ip, parts[k])])

constructDNSRecords(request) ==
    LET param     == OrElse(request.ip, request.myip)
        ip        == IF param = Auto THEN request.cfip ELSE param
        hostnames == request.hostname
        parts     == Split(hostnames, ",")
    IN  IF param = Null
        THEN HttpError(422, <<"The \"ip\" parameter is required and cannot be empty. Specify ip=auto to use the client IP.">>)
        ELSE IF ip = Null
        THEN HttpError(500, <<"Request asked for ip=auto but client IP address cannot be determined.">>)
        ELSE IF hostnames = Null
        THEN HttpError(422, <<"The \"hostname\" parameter is required and cannot be empty.">>)
        ELSE Return([k \in 1..Len(parts) |-> DNSRecord(ip, parts[k])])

(***************************************************************************)
(* The catch block of fetch: an HttpError becomes a response with its      *)
(* status and message, anything else the fixed 500 response.               *)
(***************************************************************************)
InternalServerError == Response(<<"Internal Server Error">>, 500)

\* a catch block that answers 500 with the message of whatever was thrown
CatchLeaky(error) ==
    IF error.kind = "HttpError"
    THEN Response(error.message, error.statusCode)
    ELSE Response(error.message, 500)

Catch(error) ==
    IF error.kind = "HttpError"
    THEN Response(error.message, error.statusCode)
    ELSE InternalServerError

(***************************************************************************)
(* The DNS provider: the status of the presented token, the zones visible  *)
(* to it, and the address records, keyed by record id.                     *)
(***************************************************************************)
\* an omitted optional field of a provider record (proxied, comment)
Undefined == "undefined"

\* records[0].id === undefined: the id of a listed record that carries none; the
\* provider's own records are numbered from 1
NoId == 0

MaxRecs == 3

MaxReqs == 2

RecIds == 1..MaxRecs

ZoneIds == {"z1", "z2"}

HostA == <<"a">>

HostB == <<"b">>

IPv4 == <<"1", ".", "2">>

IPv6 == <<"a", ":", "b">>

RecordTypes == {"A", "AAAA"}

TokenStatuses == {"active", "expired", "disabled"}

ZoneLists == {<<>>, <<"z1">>, <<"z1", "z2">>}

\* what a record holds before any request: an address no request asks for
InitialContent(type) == IF type = "A" THEN <<"9", ".", "9">> ELSE <<"f", ":", "f">>

\* proxied and comment of the record with a given id: omitted or set
Profiles ==
    <<[proxied |-> Undefined, comment |-> "c1"],
      [proxied |-> "true",    comment |-> Undefined],
      [proxied |-> "false",   comment |-> "c2"],
      [proxied |-> Undefined, comment |-> Undefined]>>

ProfileOf(id) == Profiles[((id - 1) % Len(Profiles)) + 1]

RemoteRecord(id, zone_id, name, type) ==
    [zone_id |-> zone_id,
     name    |-> name,
     type    |-> type,
     content |-> InitialContent(type),
     proxied |-> ProfileOf(id).proxied,
     comment |-> ProfileOf(id).comment]

\* where a record may lie: two names and both types in the first zone, and the
\* first name in the second zone
RecordKeys ==
    {<<"z1", HostA, "A">>, <<"z1", HostA, "AAAA">>, <<"z1", HostB, "A">>,
     <<"z2", HostA, "A">>}

\* the provider states a run starts from: every placement of the records
ProviderRecords ==
    {[id \in RecIds |-> RemoteRecord(id, k[id][1], k[id][2], k[id][3])] :
        k \in [RecIds -> RecordKeys]}

VARIABLES
    tokenStatus,     \* provider: the status VerifyToken reports
    visibleZones,    \* provider: the zones ListZones returns, in order
    records,         \* provider: record id -> record
    pc,              \* per request slot: where its handler stands
    req,             \* per slot: the request being handled
    clientOptions,   \* per slot: the decoded credentials
    newRecords,      \* per slot: the desired records
    zones,           \* per slot: the zones ListZones returned
    ri,              \* per slot: index of newRecord in the outer loop
    zi,              \* per slot: index of zone in the inner loop
    currentRecord,   \* per slot: records[0] of the last listing
    resp,            \* per slot: the response of the handled request
    calls,           \* per slot: the provider calls the request issued, in order
    pre,             \* per slot: the provider's records when the request arrived
    nreq             \* requests received so far

provider == <<tokenStatus, visibleZones, records>>

local == <<req, clientOptions, newRecords, zones, ri, zi, currentRecord>>

vars == <<tokenStatus, visibleZones, records, pc, req, clientOptions, newRecords,
          zones, ri, zi, currentRecord, resp, calls, pre, nreq>>

Slots == {1, 2}

NoRequest ==
    [authorization |-> Null, ip |-> Null, myip |-> Null, hostname |-> Null, cfip |-> Null]

NoOptions == [apiEmail |-> <<>>, apiToken |-> <<>>]

NoRecord ==
    [id |-> NoId, zone_id |-> "", name |-> <<>>, type |-> "", content |-> <<>>,
     proxied |-> Undefined, comment |-> Undefined]

InitLocal ==
    /\ pc = [r \in Slots |-> "idle"]
    /\ req = [r \in Slots |-> NoRequest]
    /\ clientOptions = [r \in Slots |-> NoOptions]
    /\ newRecords = [r \in Slots |-> <<>>]
    /\ zones = [r \in Slots |-> <<>>]
    /\ ri = [r \in Slots |-> 0]
    /\ zi = [r \in Slots |-> 0]
    /\ currentRecord = [r \in Slots |-> NoRecord]
    /\ resp = [r \in Slots |-> NoResponse]
    /\ calls = [r \in Slots |-> <<>>]
    /\ nreq = 0

Init ==
    /\ tokenStatus \in TokenStatuses
    /\ visibleZones \in ZoneLists
    /\ records \in ProviderRecords
    /\ pre = [r \in Slots |-> records]
    /\ InitLocal

(***************************************************************************)
(* The provider's four operations.                                         *)
(***************************************************************************)
RECURSIVE Ascending(_)
Ascending(S) ==
    IF S = {} THEN <<>>
    ELSE LET m == CHOOSE x \in S : \A y \in S : x <= y
         IN  <<m>> \o Ascending(S \ {m})

UpperCase ==
    <<"A", "B", "C", "D", "E", "F", "G", "H", "I", "J", "K", "L", "M",
      "N", "O", "P", "Q", "R", "S", "T", "U", "V", "W", "X", "Y", "Z">>

LowerCase ==
    <<"a", "b", "c", "d", "e", "f", "g", "h", "i", "j", "k", "l", "m",
      "n", "o", "p", "q", "r", "s", "t", "u", "v", "w", "x", "y", "z">>

ToLower(name) ==
    [i \in 1..Len(name) |->
        IF \E j \in 1..Len(UpperCase) : UpperCase[j] = name[i]
        THEN LowerCase[CHOOSE j \in 1..Len(UpperCase) : UpperCase[j] = name[i]]
        ELSE name[i]]

\* the provider's name filter ignores the case of letters
SameName(a, b) == ToLower(a) = ToLower(b)

\* dns.records.list({zone_id, name, type}): the records of the zone with that name
\* and type, each with its id
ListRecordsResult(recs, zone_id, name, type) ==
    LET ids == Ascending({id \in DOMAIN recs :
                            /\ recs[id].zone_id = zone_id
                            /\ SameName(recs[id].name, name)
                            /\ recs[id].type = type})
    IN  [k \in 1..Len(ids) |->
            [id      |-> ids[k],
             zone_id |-> recs[ids[k]].zone_id,
             name    |-> recs[ids[k]].name,
             type    |-> recs[ids[k]].type,
             content |-> recs[ids[k]].content,
             proxied |-> recs[ids[k]].proxied,
             comment |-> recs[ids[k]].comment]]

\* dns.records.update(id, body): the record of that id in that zone is overwritten
\* with the body; there is no such record when the id is not in the zone
UpdateAccepted(recs, id, body) == id \in DOMAIN recs /\ recs[id].zone_id = body.zone_id

UpdateRecordResult(recs, id, body) ==
    [recs EXCEPT ![id] = [zone_id |-> body.zone_id,
                          name    |-> body.name,
                          type    |-> body.type,
                          content |-> body.content,
                          proxied |-> body.proxied,
                          comment |-> body.comment]]

(***************************************************************************)
(* The handler, one action per stretch of code between two awaits.         *)
(***************************************************************************)
\* the handler of slot r ends with a response
Respond(r, response) ==
    /\ resp' = [resp EXCEPT ![r] = response]
    /\ pc' = [pc EXCEPT ![r] = "done"]

Issue(r, call) == calls' = [calls EXCEPT ![r] = Append(@, call)]

\* fetch is entered with a request
Receive(r, request) ==
    /\ pc[r] \in {"idle", "done"}
    /\ nreq < MaxReqs
    /\ nreq' = nreq + 1
    /\ pc' = [pc EXCEPT ![r] = "decode"]
    /\ req' = [req EXCEPT ![r] = request]
    /\ clientOptions' = [clientOptions EXCEPT ![r] = NoOptions]
    /\ newRecords' = [newRecords EXCEPT ![r] = <<>>]
    /\ zones' = [zones EXCEPT ![r] = <<>>]
    /\ ri' = [ri EXCEPT ![r] = 0]
    /\ zi' = [zi EXCEPT ![r] = 0]
    /\ currentRecord' = [currentRecord EXCEPT ![r] = NoRecord]
    /\ resp' = [resp EXCEPT ![r] = NoResponse]
    /\ calls' = [calls EXCEPT ![r] = <<>>]
    /\ pre' = [pre EXCEPT ![r] = records]
    /\ UNCHANGED provider

\* const clientOptions = constructClientOptions(request)
Decode(r) ==
    /\ pc[r] = "decode"
    /\ LET out == constructClientOptions(req[r].authorization)
       IN  IF out.kind = "return"
           THEN /\ clientOptions' = [clientOptions EXCEPT ![r] = out.value]
                /\ pc' = [pc EXCEPT ![r] = "parse"]
                /\ UNCHANGED resp
           ELSE /\ Respond(r, Catch(out))
                /\ UNCHANGED clientOptions
    /\ UNCHANGED <<provider, req, newRecords, zones, ri, zi, currentRecord, calls, pre, nreq>>

\* const records = constructDNSRecords(request), then update(...) up to its first await
Parse(r) ==
    /\ pc[r] = "parse"
    /\ LET out == constructDNSRecords(req[r])
       IN  IF out.kind = "return"
           THEN /\ newRecords' = [newRecords EXCEPT ![r] = out.value]
                /\ pc' = [pc EXCEPT ![r] = "verify"]
                /\ UNCHANGED resp
           ELSE /\ Respond(r, Catch(out))
                /\ UNCHANGED newRecords
    /\ UNCHANGED <<provider, req, clientOptions, zones, ri, zi, currentRecord, calls, pre, nreq>>

\* a status test that turns away disabled tokens only
TokenRejectedOnlyDisabled(status) == status = "disabled"

\* tokenStatus !== 'active'
TokenRejected(status) == status # "active"

\* await cloudflare.user.tokens.verify(), the status test
VerifyToken(r) ==
    /\ pc[r] = "verify"
    /\ \E answered \in BOOLEAN :
        /\ Issue(r, [op |-> "VerifyToken", creds |-> clientOptions[r], failed |-> ~answered])
        /\ IF ~answered
           THEN Respond(r, Catch(OtherError("VerifyToken")))
           ELSE IF TokenRejected(tokenStatus)
           THEN Respond(r, Catch(HttpError(401, <<"This API Token is ", tokenStatus>>)))
           ELSE /\ pc' = [pc EXCEPT ![r] = "zones"]
                /\ UNCHANGED resp
    /\ UNCHANGED <<provider, local, pre, nreq>>

\* loops that leave a record after its first zone
NextPairFirstZoneOnly(r) == <<ri[r] + 1, 1>>

\* where the loops stand after the pair (ri, zi) of slot r: the next zone, else the
\* first zone of the next record
NextPair(r) ==
    IF zi[r] < Len(zones[r]) THEN <<ri[r], zi[r] + 1>> ELSE <<ri[r] + 1, 1>>

\* the pair (ri, zi) is finished: list for the next pair, or return OK after the last
Continue(r) ==
    /\ ri' = [ri EXCEPT ![r] = NextPair(r)[1]]
    /\ zi' = [zi EXCEPT ![r] = NextPair(r)[2]]
    /\ IF NextPair(r)[1] > Len(newRecords[r])
       THEN Respond(r, Response(<<"OK">>, 200))
       ELSE /\ pc' = [pc EXCEPT ![r] = "list"]
            /\ UNCHANGED resp

\* a length test that insists on a single zone
NotOneZone(zs) == Len(zs) # 1

\* zones.length === 0
NoZones(zs) == Len(zs) = 0

\* await cloudflare.zones.list(), the length test, entry of the loops
ListZones(r) ==
    /\ pc[r] = "zones"
    /\ \E answered \in BOOLEAN :
        /\ Issue(r, [op |-> "ListZones", creds |-> clientOptions[r], failed |-> ~answered])
        /\ IF ~answered
           THEN /\ Respond(r, Catch(OtherError("ListZones")))
                /\ UNCHANGED <<zones, ri, zi>>
           ELSE IF NoZones(visibleZones)
           THEN /\ Respond(r, Catch(HttpError(400, <<"No zones found! You must supply an API Token scoped to a single zone.">>)))
                /\ zones' = [zones EXCEPT ![r] = visibleZones]
                /\ UNCHANGED <<ri, zi>>
           ELSE /\ zones' = [zones EXCEPT ![r] = visibleZones]
                /\ ri' = [ri EXCEPT ![r] = 1]
                /\ zi' = [zi EXCEPT ![r] = 1]
                /\ IF Len(newRecords[r]) = 0
                   THEN Respond(r, Response(<<"OK">>, 200))
                   ELSE /\ pc' = [pc EXCEPT ![r] = "list"]
                        /\ UNCHANGED resp
    /\ UNCHANGED <<provider, req, clientOptions, newRecords, currentRecord, pre, nreq>>

\* a branch that updates the first of several matches
MatchOutcomeFirstOfMany(result) ==
    IF Len(result) = 0 \/ result[1].id = NoId THEN "skip" ELSE "update"

\* a branch that fails the request when nothing matches
MatchOutcomeMissingIsError(result) ==
    IF Len(result) > 1 \/ Len(result) = 0 THEN "conflict"
    ELSE IF result[1].id = NoId THEN "skip"
    ELSE "update"

\* the branch taken on the result of a listing: more than one record is a conflict,
\* none (or a first record without an id) is skipped, else the record is updated
MatchOutcome(result) ==
    IF Len(result) > 1 THEN "conflict"
    ELSE IF Len(result) = 0 \/ result[1].id = NoId THEN "skip"
    ELSE "update"

\* await cloudflare.dns.records.list(...) for the pair (ri, zi), the tests on its result
ListRecords(r) ==
    /\ pc[r] = "list"
    /\ LET newRecord == newRecords[r][ri[r]]
           zone_id   == zones[r][zi[r]]
           result    == ListRecordsResult(records, zone_id, newRecord.name, newRecord.type)
       IN  \E answered \in BOOLEAN :
            /\ Issue(r, [op |-> "ListRecords", creds |-> clientOptions[r],
                         failed |-> ~answered, zone_id |-> zone_id,
                         name |-> newRecord.name, type |-> newRecord.type,
                         result |-> IF answered THEN [k \in 1..Len(result) |-> result[k].id]
                                    ELSE <<>>])
            /\ IF ~answered
               THEN /\ Respond(r, Catch(OtherError("ListRecords")))
                    /\ UNCHANGED <<ri, zi, currentRecord>>
               ELSE IF MatchOutcome(result) = "conflict"
               THEN /\ Respond(r, Catch(HttpError(400, <<"More than one matching record found!">>)))
                    /\ UNCHANGED <<ri, zi, currentRecord>>
               ELSE IF MatchOutcome(result) = "skip"
               THEN /\ Continue(r)
                    /\ UNCHANGED currentRecord
               ELSE /\ currentRecord' = [currentRecord EXCEPT ![r] = result[1]]
                    /\ pc' = [pc EXCEPT ![r] = "update"]
                    /\ UNCHANGED <<ri, zi, resp>>
    /\ UNCHANGED <<provider, req, clientOptions, newRecords, zones, pre, nreq>>

\* a body that sends the matched record's content back
UpdateBodyKeepsContent(r) ==
    [content |-> currentRecord[r].content,
     zone_id |-> zones[r][zi[r]],
     name    |-> newRecords[r][ri[r]].name,
     type    |-> newRecords[r][ri[r]].type,
     proxied |-> IF currentRecord[r].proxied = Undefined THEN "false"
                 ELSE currentRecord[r].proxied,
     comment |-> currentRecord[r].comment]

\* a body that leaves the comment out
UpdateBodyDropsComment(r) ==
    [content |-> newRecords[r][ri[r]].content,
     zone_id |-> zones[r][zi[r]],
     name    |-> newRecords[r][ri[r]].name,
     type    |-> newRecords[r][ri[r]].type,
     proxied |-> IF currentRecord[r].proxied = Undefined THEN "false"
                 ELSE currentRecord[r].proxied,
     comment |-> Undefined]

\* a body whose type is always A
UpdateBodyTypeA(r) ==
    [content |-> newRecords[r][ri[r]].content,
     zone_id |-> zones[r][zi[r]],
     name    |-> newRecords[r][ri[r]].name,
     type    |-> "A",
     proxied |-> IF currentRecord[r].proxied = Undefined THEN "false"
                 ELSE currentRecord[r].proxied,
     comment |-> currentRecord[r].comment]

\* a body whose content is read from a place all requests share: the desired
\* records parsed last by the first slot
UpdateBodySharedContent(r) ==
    [content |-> IF newRecords[1] # <<>> THEN newRecords[1][1].content
                 ELSE newRecords[r][ri[r]].content,
     zone_id |-> zones[r][zi[r]],
     name    |-> newRecords[r][ri[r]].name,
     type    |-> newRecords[r][ri[r]].type,
     proxied |-> IF currentRecord[r].proxied = Undefined THEN "false"
                 ELSE currentRecord[r].proxied,
     comment |-> currentRecord[r].comment]

\* a body that toggles proxied
UpdateBodyTogglesProxied(r) ==
    [content |-> newRecords[r][ri[r]].content,
     zone_id |-> zones[r][zi[r]],
     name    |-> newRecords[r][ri[r]].name,
     type    |-> newRecords[r][ri[r]].type,
     proxied |-> IF currentRecord[r].proxied = "true" THEN "false" ELSE "true",
     comment |-> currentRecord[r].comment]

\* a body that passes the match's name, type and zone through
UpdateBodyFromMatch(r) ==
    [content |-> newRecords[r][ri[r]].content,
     zone_id |-> currentRecord[r].zone_id,
     name    |-> currentRecord[r].name,
     type    |-> currentRecord[r].type,
     proxied |-> IF currentRecord[r].proxied = Undefined THEN "false"
                 ELSE currentRecord[r].proxied,
     comment |-> currentRecord[r].comment]

\* the body update sends for the pair (ri, zi) of slot r
UpdateBody(r) ==
    [content |-> newRecords[r][ri[r]].content,
     zone_id |-> zones[r][zi[r]],
     name    |-> newRecords[r][ri[r]].name,
     type    |-> newRecords[r][ri[r]].type,
     proxied |-> IF currentRecord[r].proxied = Undefined THEN "false"
                 ELSE currentRecord[r].proxied,
     comment |-> currentRecord[r].comment]

\* await cloudflare.dns.records.update(records[0].id, {...}), then the next pair.
\* A call that fails may or may not have reached the provider.
UpdateRecord(r) ==
    /\ pc[r] = "update"
    /\ LET id   == currentRecord[r].id
           body == UpdateBody(r)
       IN  \E answered \in BOOLEAN, applied \in BOOLEAN :
            /\ answered => applied
            /\ Issue(r, [op |-> "UpdateRecord", creds |-> clientOptions[r],
                         failed |-> ~(answered /\ UpdateAccepted(records, id, body)),
                         id |-> id, body |-> body])
            /\ IF applied /\ UpdateAccepted(records, id, body)
               THEN records' = UpdateRecordResult(records, id, body)
               ELSE UNCHANGED records
            /\ IF answered /\ UpdateAccepted(records, id, body)
               THEN Continue(r)
               ELSE /\ Respond(r, Catch(OtherError("UpdateRecord")))
                    /\ UNCHANGED <<ri, zi>>
    /\ UNCHANGED <<tokenStatus, visibleZones, req, clientOptions, newRecords, zones,
                   currentRecord, pre, nreq>>

(***************************************************************************)
(* Requests.                                                               *)
(***************************************************************************)
Basic == <<"B", "a", "s", "i", "c", " ">>

\* Basic base64("a:b")
AuthAB == Basic \o <<"Y", "T", "p", "i">>

\* the requests of the reconciler's runs: both kinds of address for one or two
\* hostnames, and one request each without the header, the address, the hostname
CompleteRequests ==
    [authorization : {AuthAB},
     ip            : {IPv4, IPv6},
     myip          : {Null},
     hostname      : {HostA, HostA \o <<",">> \o HostB, HostB \o <<",">> \o HostA},
     cfip          : {Null}]

PlainRequest ==
    [authorization |-> AuthAB, ip |-> IPv4, myip |-> Null, hostname |-> HostA,
     cfip |-> Null]

Requests ==
    CompleteRequests \cup {[PlainRequest EXCEPT !.authorization = Null],
                           [PlainRequest EXCEPT !.ip = Null],
                           [PlainRequest EXCEPT !.hostname = Null]}

\* requests are handled one after the other
Next ==
    \/ \E request \in Requests : Receive(1, request)
    \/ Decode(1)
    \/ Parse(1)
    \/ VerifyToken(1)
    \/ ListZones(1)
    \/ ListRecords(1)
    \/ UpdateRecord(1)

Spec == Init /\ [][Next]_vars

(***************************************************************************)
(* The decoder's and the parser's runs: every combination of the headers   *)
(* and parameters below, against one provider state.                       *)
(***************************************************************************)
\* Basic base64("a:b:c")
AuthABC == Basic \o <<"Y", "T", "p", "i", "O", "m", "M", "=">>

AuthHeaders ==
    {Null,                                  \* no Authorization header
     <<>>,                                  \* an empty one
     <<"B", "a", "s", "i", "c">>,           \* no payload after the scheme
     Basic \o <<"Y">>,                      \* a payload that is not base64: bad length
     Basic \o <<"Y", "T", "!", "i">>,       \* a payload that is not base64: bad character
     Basic \o <<"Y", "Q">>,                 \* base64("a"): no colon
     Basic \o <<"O", "g", "o", "6">>,       \* base64(":\n:"): a control character
     AuthAB,
     AuthABC}

\* every combination of the parameters and the caller's address
FrontParams ==
    [ip       : {Null, <<>>, Auto, IPv4, IPv6},
     myip     : {Null, <<>>, Auto, IPv4},
     hostname : {Null, <<>>, HostA, HostA \o <<",">> \o HostB,
                 HostA \o <<",">> \o HostA},
     cfip     : {Null, IPv6}]

WithAuthorization(authorization, params) ==
    [authorization |-> authorization, ip |-> params.ip, myip |-> params.myip,
     hostname |-> params.hostname, cfip |-> params.cfip]

\* every header with complete parameters, without an address and without a
\* hostname, and the two decodable headers with every combination of parameters
FrontRequests ==
    {[q EXCEPT !.authorization = h] :
        h \in AuthHeaders,
        q \in {PlainRequest, [PlainRequest EXCEPT !.ip = Null],
               [PlainRequest EXCEPT !.hostname = Null]}}
    \cup {WithAuthorization(h, params) : h \in {AuthAB, AuthABC}, params \in FrontParams}

\* the first record is the only one named a, the others are all named b
InitFront ==
    /\ tokenStatus = "active"
    /\ visibleZones = <<"z1">>
    /\ records = [id \in RecIds |->
                    RemoteRecord(id, "z1", IF id = 1 THEN HostA ELSE HostB, "A")]
    /\ pre = [r \in Slots |-> records]
    /\ InitLocal

NextFront ==
    \/ \E request \in FrontRequests : Receive(1, request)
    \/ Decode(1)
    \/ Parse(1)
    \/ VerifyToken(1)
    \/ ListZones(1)
    \/ ListRecords(1)
    \/ UpdateRecord(1)

SpecFront == InitFront /\ [][NextFront]_vars

(***************************************************************************)
(* Vocabulary of the properties.                                           *)
(***************************************************************************)
Done(r) == pc[r] = "done"

OK200 == Response(<<"OK">>, 200)

Conflict400 == Response(<<"More than one matching record found!">>, 400)

\* the ids of the records of recs with that zone, name and type
Matching(recs, zone_id, name, type) ==
    {id \in DOMAIN recs :
        /\ recs[id].zone_id = zone_id
        /\ SameName(recs[id].name, name)
        /\ recs[id].type = type}

\* the address a request asks for: ip, else myip, and the caller's address for auto
ResolvedIP(request) ==
    LET param == IF request.ip # Null /\ request.ip # <<>> THEN request.ip
                 ELSE request.myip
    IN  IF param = Auto THEN request.cfip ELSE param

\* every provider call of the request of slot r was answered
AllAnswered(r) == \A k \in 1..Len(calls[r]) : ~calls[r][k].failed

UpdateCalls(r) == {k \in 1..Len(calls[r]) : calls[r][k].op = "UpdateRecord"}

\* some desired record of slot r has more than one match in a visible zone
ConflictIn(r) ==
    \E k \in 1..Len(newRecords[r]), z \in 1..Len(visibleZones) :
        Cardinality(Matching(pre[r], visibleZones[z], newRecords[r][k].name,
                             newRecords[r][k].type)) > 1

\* proxied as update sends it
SentProxied(p) == IF p = Undefined THEN "false" ELSE p

\* the k-th call of slot r is an answered listing without records
EmptyListing(r, k) ==
    /\ calls[r][k].op = "ListRecords"
    /\ ~calls[r][k].failed
    /\ calls[r][k].result = <<>>

\* how many of the first k calls of slot r are listings
ListingNo(r, k) == Cardinality({j \in 1..k : calls[r][j].op = "ListRecords"})

PairCount(r) == Len(newRecords[r]) * Len(zones[r])

\* the p-th (record, zone) pair in record-major order
PairAt(r, p) ==
    [record  |-> newRecords[r][((p - 1) \div Len(zones[r])) + 1],
     zone_id |-> zones[r][((p - 1) % Len(zones[r])) + 1]]

(***************************************************************************)
(* C1..C5: what the reconciler does to the provider.                       *)
(***************************************************************************)
\* C1: when a request has completed with status 200, every record that was the only
\* match of one of its desired records in a visible zone holds the request's
\* resolved IP as content.
C1_UniqueMatchHoldsResolvedIP ==
    \A r \in Slots :
        (Done(r) /\ resp[r].status = 200) =>
            \A k \in 1..Len(newRecords[r]), z \in 1..Len(visibleZones) :
                LET m == Matching(pre[r], visibleZones[z], newRecords[r][k].name,
                                  newRecords[r][k].type)
                IN  Cardinality(m) = 1 =>
                        \A id \in m : records[id].content = ResolvedIP(req[r])

\* a request completed with 200 after replacing the content of two records
C1_Witness ==
    \E r \in Slots :
        /\ Done(r) /\ resp[r].status = 200
        /\ Cardinality({id \in RecIds :
                            /\ records[id].content # pre[r][id].content
                            /\ records[id].content = ResolvedIP(req[r])}) >= 2

C3_ConflictEnds400 ==
    \A r \in Slots :
        (/\ Done(r)
         /\ Len(newRecords[r]) > 0
         /\ tokenStatus = "active"
         /\ AllAnswered(r)
         /\ ConflictIn(r)) => resp[r] = Conflict400

\* the conflict was met after an earlier pair had been updated
C3_Witness ==
    \E r \in Slots :
        /\ Done(r) /\ resp[r] = Conflict400 /\ AllAnswered(r)
        /\ UpdateCalls(r) # {}

\* C4: an answered listing without records is followed by no update but by the
\* listing of the next pair, or by 200 OK after the last pair; a request with such
\* a listing, every call answered and no conflict ends with 200 OK.
C4_NoMatchIsSkipped ==
    \A r \in Slots :
        /\ \A k \in 1..Len(calls[r]) :
            EmptyListing(r, k) =>
                IF k < Len(calls[r])
                THEN /\ calls[r][k + 1].op = "ListRecords"
                     /\ calls[r][k + 1].zone_id = PairAt(r, ListingNo(r, k) + 1).zone_id
                     /\ calls[r][k + 1].name = PairAt(r, ListingNo(r, k) + 1).record.name
                     /\ calls[r][k + 1].type = PairAt(r, ListingNo(r, k) + 1).record.type
                ELSE IF ListingNo(r, k) < PairCount(r)
                THEN pc[r] = "list"
                ELSE Done(r) /\ resp[r] = OK200
        /\ (/\ Done(r)
            /\ \E k \in 1..Len(calls[r]) : EmptyListing(r, k)
            /\ AllAnswered(r)
            /\ ~ConflictIn(r)) => resp[r] = OK200

\* a request ended with 200 OK after a listing without records, another listing
\* and an update
C4_Witness ==
    \E r \in Slots :
        /\ Done(r) /\ resp[r] = OK200
        /\ \E k \in 1..(Len(calls[r]) - 1) : EmptyListing(r, k)
        /\ UpdateCalls(r) # {}

\* a step that changes the provider's records is an UpdateRecord call of slot r on
\* an id the request's listing just returned, and changes that record alone
WriteIsListedUpdate(r) ==
    /\ Len(calls[r]) >= 1
    /\ Len(calls'[r]) = Len(calls[r]) + 1
    /\ LET update  == calls'[r][Len(calls'[r])]
           listing == calls[r][Len(calls[r])]
       IN  /\ update.op = "UpdateRecord"
           /\ listing.op = "ListRecords"
           /\ ~listing.failed
           /\ \E i \in 1..Len(listing.result) : listing.result[i] = update.id
           /\ \A id \in RecIds : id # update.id => records'[id] = records[id]

BadAuthorization(h) ==
    \/ h = Null
    \/ Len(Split(h, " ")) < 2
    \/ ~Atob(Split(h, " ")[2]).ok
    \/ IndexOf(Atob(Split(h, " ")[2]).value, Colon) = -1
    \/ HasControlChar(Atob(Split(h, " ")[2]).value)

\* C6: the response to every request whose Authorization header is absent,
\* malformed, without a colon or with a control character has status 401.
C6_BadAuthorizationIs401 ==
    \A r \in Slots :
        (Done(r) /\ BadAuthorization(req[r].authorization)) => resp[r].status = 401

DecoderFails(r) == constructClientOptions(req[r].authorization).kind # "return"

ParserFails(r) == constructDNSRecords(req[r]).kind # "return"

\* C7: a request whose decoder or parser fails issues no provider call, and when
\* both would fail the response is the decoder's failure, with status 401.
C7_DecoderThenParserThenReconciler ==
    \A r \in Slots : pc[r] # "idle" =>
        /\ (DecoderFails(r) \/ ParserFails(r)) => calls[r] = <<>>
        /\ (Done(r) /\ DecoderFails(r) /\ ParserFails(r)) =>
                /\ resp[r] = Catch(constructClientOptions(req[r].authorization))
                /\ resp[r].status = 401

(***************************************************************************)
(* C8..C10: failures met by the reconciler.                                *)
(***************************************************************************)
\* C8: while the token is not active a request issues no call but VerifyToken and
\* leaves the records as they were, and once VerifyToken has answered it has ended
\* with status 401 and a body that holds the reported status.
C8_InactiveTokenIs401 ==
    \A r \in Slots : (pc[r] # "idle" /\ tokenStatus # "active") =>
        /\ Len(calls[r]) <= 1
        /\ \A k \in 1..Len(calls[r]) : calls[r][k].op = "VerifyToken"
        /\ records = pre[r]
        /\ (Len(calls[r]) = 1 /\ ~calls[r][1].failed) =>
                /\ Done(r)
                /\ resp[r].status = 401
                /\ \E i \in 1..Len(resp[r].body) : resp[r].body[i] = tokenStatus

\* a request met an expired token
C8_Witness ==
    \E r \in Slots :
        /\ Done(r) /\ tokenStatus = "expired"
        /\ Len(calls[r]) = 1 /\ ~calls[r][1].failed
        /\ resp[r].status = 401

\* the second call of slot r is an answered ListZones
ZonesListed(r) ==
    /\ Len(calls[r]) >= 2
    /\ calls[r][2].op = "ListZones"
    /\ ~calls[r][2].failed

\* C9: when ListZones has answered an active token with no zone, the request has
\* ended with status 400 after that call; when it has answered with two or more
\* zones the request goes on to list, and if it completes with 200 it has listed
\* every desired record in every zone.
C9_ZeroZonesIs400 ==
    \A r \in Slots : ZonesListed(r) =>
        /\ Len(visibleZones) = 0 =>
                /\ Done(r)
                /\ resp[r].status = 400
                /\ Len(calls[r]) = 2
        /\ Len(visibleZones) >= 2 =>
                /\ Len(calls[r]) = 2 => pc[r] = "list"
                /\ (Done(r) /\ resp[r].status = 200) =>
                       \A k \in 1..Len(newRecords[r]), z \in 1..Len(visibleZones) :
                           \E c \in 1..Len(calls[r]) :
                               /\ calls[r][c].op = "ListRecords"
                               /\ calls[r][c].zone_id = visibleZones[z]
                               /\ calls[r][c].name = newRecords[r][k].name
                               /\ calls[r][c].type = newRecords[r][k].type

\* a request met a token without zones
C9_Witness ==
    \E r \in Slots :
        /\ ZonesListed(r) /\ visibleZones = <<>>
        /\ Done(r) /\ resp[r].status = 400

\* C10: a provider call that failed is the last call of its request, and the
\* request has ended with status 500 and the body Internal Server Error.
C10_ProviderFailureIs500 ==
    \A r \in Slots : \A k \in 1..Len(calls[r]) :
        calls[r][k].failed =>
            /\ k = Len(calls[r])
            /\ Done(r)
            /\ resp[r] = Response(<<"Internal Server Error">>, 500)

\* an UpdateRecord call failed after an earlier update of the same request
C10_Witness ==
    \E r \in Slots :
        /\ Done(r) /\ resp[r].status = 500
        /\ Cardinality(UpdateCalls(r)) >= 2
        /\ calls[r][Len(calls[r])].op = "UpdateRecord"
        /\ calls[r][Len(calls[r])].failed

(***************************************************************************)
(* C11: a request that fails inside the loops.                             *)
(***************************************************************************)
\* the k-th call of slot r ended the request: it failed, or it is a listing with
\* more than one record
EndsRequest(r, k) ==
    \/ calls[r][k].failed
    \/ calls[r][k].op = "ListRecords" /\ Len(calls[r][k].result) > 1

\* C11: when a request that has listed records ends with another status than 200,
\* the call that ended it is its last call (nothing after it is listed or updated,
\* nothing is undone), every update call carried the desired content, and every
\* record an answered update wrote still holds that content.
C11_NoRollbackNoFurtherWork ==
    \A r \in Slots :
        (/\ Done(r)
         /\ resp[r].status # 200
         /\ ListingNo(r, Len(calls[r])) > 0) =>
            /\ EndsRequest(r, Len(calls[r]))
            /\ \A k \in 1..(Len(calls[r]) - 1) : ~EndsRequest(r, k)
            /\ ListingNo(r, Len(calls[r])) <= PairCount(r)
            /\ \A k \in UpdateCalls(r) :
                /\ calls[r][k].body.content = ResolvedIP(req[r])
                /\ ~calls[r][k].failed =>
                        records[calls[r][k].id].content = ResolvedIP(req[r])

\* a listing failed after an update had replaced a record's content, with pairs
\* still to come
C11_Witness ==
    \E r \in Slots :
        /\ Done(r) /\ resp[r].status = 500
        /\ calls[r][Len(calls[r])].op = "ListRecords"
        /\ ListingNo(r, Len(calls[r])) < PairCount(r)
        /\ \E k \in UpdateCalls(r) :
            /\ records[calls[r][k].id].content = ResolvedIP(req[r])
            /\ pre[r][calls[r][k].id].content # ResolvedIP(req[r])

(***************************************************************************)
(* C12..C15: the parser.                                                   *)
(***************************************************************************)
\* neither ip nor myip carries a non-empty value
NoAddressGiven(request) ==
    request.ip \in {Null, <<>>} /\ request.myip \in {Null, <<>>}

\* the parser has returned the desired records of slot r
Parsed(r) == newRecords[r] # <<>>

\* C12: a request without a non-empty ip or myip ends with status 422 and neither
\* gets desired records nor issues a provider call; the content of the desired
\* records is ip, or myip when ip is not given (auto aside).
C12_MissingAddressIs422 ==
    \A r \in Slots : (pc[r] # "idle" /\ ~DecoderFails(r)) =>
        /\ NoAddressGiven(req[r]) =>
                /\ ~Parsed(r)
                /\ calls[r] = <<>>
                /\ Done(r) => resp[r].status = 422
        /\ (Parsed(r) /\ ~NoAddressGiven(req[r]) /\ ResolvedIP(req[r]) # req[r].cfip) =>
                \A k \in 1..Len(newRecords[r]) :
                    newRecords[r][k].content =
                        IF req[r].ip \in {Null, <<>>} THEN req[r].myip ELSE req[r].ip

\* the parser gets past the address: one is given, and auto finds the caller's
AddressResolved(request) == ~NoAddressGiven(request) /\ ResolvedIP(request) # Null

\* C13: a request with an address whose hostname is absent or empty ends with
\* status 422, and no desired record has an empty name.
C13_MissingHostnameIs422 ==
    \A r \in Slots : (pc[r] # "idle" /\ ~DecoderFails(r) /\ AddressResolved(req[r])) =>
        /\ \A k \in 1..Len(newRecords[r]) : newRecords[r][k].name # <<>>
        /\ (Done(r) /\ req[r].hostname \in {Null, <<>>}) => resp[r].status = 422

\* the request of slot r asks for auto, through ip or through myip
AsksAuto(r) == ~NoAddressGiven(req[r]) /\ OrElse(req[r].ip, req[r].myip) = Auto

\* C14: when the request asks for auto, every desired record holds the value of
\* CF-Connecting-IP; without that header the request ends with status 500 and
\* without a provider call, whether or not it has a hostname.
C14_AutoUsesCallerAddress ==
    \A r \in Slots : (pc[r] # "idle" /\ ~DecoderFails(r) /\ AsksAuto(r)) =>
        /\ \A k \in 1..Len(newRecords[r]) : newRecords[r][k].content = req[r].cfip
        /\ req[r].cfip = Null =>
                /\ ~Parsed(r)
                /\ calls[r] = <<>>
                /\ Done(r) => resp[r].status = 500

\* auto through myip, no CF-Connecting-IP and no hostname: status 500
C14_Witness ==
    \E r \in Slots :
        /\ Done(r) /\ resp[r].status = 500
        /\ req[r].ip = Null /\ req[r].myip = Auto
        /\ req[r].cfip = Null /\ req[r].hostname = Null

\* the names of the records, in order, with commas between them
RECURSIVE JoinNames(_)
JoinNames(recs) ==
    IF Len(recs) = 0 THEN <<>>
    ELSE IF Len(recs) = 1 THEN recs[1].name
    ELSE recs[1].name \o <<",">> \o JoinNames(Tail(recs))

\* C15: the desired records are the comma-separated segments of hostname, in order
\* and with duplicates (no name holds a comma and the names joined by commas give
\* hostname back); each has the resolved IP as content, ttl 1, and type A when
\* the IP holds a dot and AAAA otherwise.
C15_OneRecordPerSegment ==
    \A r \in Slots : Parsed(r) =>
        /\ JoinNames(newRecords[r]) = req[r].hostname
        /\ \A k \in 1..Len(newRecords[r]) :
            /\ \A i \in 1..Len(newRecords[r][k].name) : newRecords[r][k].name[i] # ","
            /\ newRecords[r][k].content = ResolvedIP(req[r])
            /\ newRecords[r][k].ttl = 1
            /\ newRecords[r][k].type =
                    IF \E i \in 1..Len(ResolvedIP(req[r])) : ResolvedIP(req[r])[i] = "."
                    THEN "A" ELSE "AAAA"

\* the same hostname twice gave two AAAA records of that name
C15_Witness ==
    \E r \in Slots :
        /\ Len(newRecords[r]) = 2
        /\ newRecords[r][1].name = HostA /\ newRecords[r][2].name = HostA
        /\ newRecords[r][1].type = "AAAA" /\ newRecords[r][2].type = "AAAA"
        /\ newRecords[r][1].content = IPv6


(***************************************************************************)
(* The decoder's round trips: headers a client builds from an email and a  *)
(* token.  Both are octet strings, the octets that the client encoded; a   *)
(* character above U+007F stands in them as the octets of its encoding.    *)
(***************************************************************************)
MaxEmailLen == 2

MaxTokenLen == 2

\* a letter and a high octet
EmailOctets == {97, 255}

\* a letter, the colon and a line feed
TokenOctets == {98, Colon, 10}

StringsUpTo(alphabet, n) == UNION {[1..k -> alphabet] : k \in 0..n}

Emails == StringsUpTo(EmailOctets, MaxEmailLen)

Tokens == StringsUpTo(TokenOctets, MaxTokenLen)

\* base64 of an octet string, padded (RFC 4648): the inverse direction of atob
RECURSIVE Btoa(_)
Btoa(b) ==
    IF Len(b) >= 3 THEN
        LET n == b[1] * 65536 + b[2] * 256 + b[3]
        IN  <<B64Chars[(n \div 262144) + 1], B64Chars[((n \div 4096) % 64) + 1],
              B64Chars[((n \div 64) % 64) + 1], B64Chars[(n % 64) + 1]>>
              \o Btoa(SubSeq(b, 4, Len(b)))
    ELSE IF Len(b) = 2 THEN
        LET n == b[1] * 1024 + b[2] * 4
        IN  <<B64Chars[(n \div 4096) + 1], B64Chars[((n \div 64) % 64) + 1],
              B64Chars[(n % 64) + 1], "=">>
    ELSE IF Len(b) = 1 THEN
        LET n == b[1] * 16
        IN  <<B64Chars[(n \div 64) + 1], B64Chars[(n % 64) + 1], "=", "=">>
    ELSE <<>>

\* Authorization: Basic base64(email ':' token)
BasicHeader(email, token) == Basic \o Btoa(email \o <<Colon>> \o token)

CodecRequests ==
    {[PlainRequest EXCEPT !.authorization = BasicHeader(email, token)] :
        email \in Emails, token \in Tokens}

NextCodec ==
    \/ \E request \in CodecRequests : Receive(1, request)
    \/ Decode(1)
    \/ Parse(1)
    \/ VerifyToken(1)
    \/ ListZones(1)
    \/ ListRecords(1)
    \/ UpdateRecord(1)

SpecCodec == InitFront /\ [][NextCodec]_vars

Decoded(r) == pc[r] \notin {"idle", "decode"}

\* C16: for every email without a colon and every token, both free of control
\* characters, the header Basic base64(email ':' token) decodes to the credentials
\* apiEmail = email and apiToken = token (the split is at the first colon), and the
\* decoder does not reject it.
C16_DecodeRecoversEmailAndToken ==
    \A r \in Slots : \A email \in Emails, token \in Tokens :
        (/\ Decoded(r)
         /\ req[r].authorization = BasicHeader(email, token)
         /\ ~Includes(email, Colon)
         /\ ~HasControlChar(email \o token)) =>
            /\ clientOptions[r] = [apiEmail |-> email, apiToken |-> token]
            /\ ~(Done(r) /\ resp[r].status \in {401, 500} /\ calls[r] = <<>>)

\* a token with two colons and an email with a high octet have been decoded
C16_Witness ==
    /\ pc[1] = "parse"
    /\ req[1].authorization = BasicHeader(<<97, 255>>, <<Colon, Colon>>)
    /\ clientOptions[1] = [apiEmail |-> <<97, 255>>, apiToken |-> <<Colon, Colon>>]


(***************************************************************************)
(* C17: the order of the provider calls.                                   *)
(***************************************************************************)
Listings(r) == {k \in 1..Len(calls[r]) : calls[r][k].op = "ListRecords"}

\* the k-th call of slot r is a listing that returned exactly one record
ListedOne(r, k) == calls[r][k].op = "ListRecords" /\ Len(calls[r][k].result) = 1

\* C17: in a request that completes with status 200 the first call is VerifyToken,
\* the second ListZones, and neither is called again; ListRecords is called once
\* for each (desired record, zone) pair in record-major order; UpdateRecord is
\* called exactly for the listings that returned one record, immediately after the
\* listing and on the id it returned; one hostname, one zone and one match give
\* exactly one update call.
C17_CallOrder ==
    \A r \in Slots :
        (Done(r) /\ resp[r].status = 200) =>
            LET cs == calls[r]
            IN  /\ Len(cs) >= 2
                /\ cs[1].op = "VerifyToken"
                /\ cs[2].op = "ListZones"
                /\ \A k \in 3..Len(cs) : cs[k].op \in {"ListRecords", "UpdateRecord"}
                /\ Cardinality(Listings(r)) = PairCount(r)
                /\ \A k \in Listings(r) :
                    /\ cs[k].zone_id = PairAt(r, ListingNo(r, k)).zone_id
                    /\ cs[k].name = PairAt(r, ListingNo(r, k)).record.name
                    /\ cs[k].type = PairAt(r, ListingNo(r, k)).record.type
                    /\ ListedOne(r, k) =>
                        /\ k < Len(cs)
                        /\ cs[k + 1].op = "UpdateRecord"
                        /\ cs[k + 1].id = cs[k].result[1]
                /\ \A k \in UpdateCalls(r) : ListedOne(r, k - 1)
                /\ (Len(newRecords[r]) = 1 /\ Len(zones[r]) = 1 /\ ListedOne(r, 3)) =>
                        Cardinality(UpdateCalls(r)) = 1

\* two hostnames against two zones: four listings, of which some but not all were
\* followed by an update
C17_Witness ==
    /\ Done(1) /\ resp[1].status = 200
    /\ Len(newRecords[1]) = 2 /\ Len(zones[1]) = 2
    /\ Cardinality(Listings(1)) = 4
    /\ Cardinality(UpdateCalls(1)) = 2


(***************************************************************************)
(* C18: where the name, type and zone of an update come from.  The runs    *)
(* below spell a hostname in capitals, which the provider's filter matches *)
(* with the record it holds in small letters.                              *)
(***************************************************************************)
HostUpperA == <<"A">>

CaseRequests ==
    [authorization : {AuthAB},
     ip            : {IPv4, IPv6},
     myip          : {Null},
     hostname      : {HostA, HostUpperA, HostUpperA \o <<",">> \o HostB},
     cfip          : {Null}]

NextCase ==
    \/ \E request \in CaseRequests : Receive(1, request)
    \/ Decode(1)
    \/ Parse(1)
    \/ VerifyToken(1)
    \/ ListZones(1)
    \/ ListRecords(1)
    \/ UpdateRecord(1)

SpecCase == Init /\ [][NextCase]_vars

\* the last provider call of slot r is an update; currentRecord[r] is then still the
\* match it was issued for
JustUpdated(r) == calls[r] # <<>> /\ calls[r][Len(calls[r])].op = "UpdateRecord"

LastCall(r) == calls[r][Len(calls[r])]

TwiceRequests ==
    Requests \cup {[PlainRequest EXCEPT !.hostname = HostUpperA \o <<",">> \o HostA],
                   [PlainRequest EXCEPT !.hostname = HostA \o <<",">> \o HostA]}

First(request) == pc[1] = "idle" /\ Receive(1, request)

Again == pc[1] = "done" /\ pc[2] = "idle" /\ Receive(2, req[1])

NextTwice ==
    \/ \E request \in TwiceRequests : First(request)
    \/ Again
    \/ \E r \in Slots :
        \/ Decode(r)
        \/ Parse(r)
        \/ VerifyToken(r)
        \/ ListZones(r)
        \/ ListRecords(r)
        \/ UpdateRecord(r)

SpecTwice == Init /\ [][NextTwice]_vars

\* both sendings have been answered; pre[2] is the provider state the first one left
BothDone == Done(1) /\ Done(2)

IPv4Other == <<"3", ".", "4">>

ConcRequests ==
    [authorization : {AuthAB, AuthABC},
     ip            : {IPv4, IPv4Other},
     myip          : {Null},
     hostname      : {HostA, HostA \o <<",">> \o HostB},
     cfip          : {Null}]

Arrive(r, request) == pc[r] = "idle" /\ Receive(r, request)

NextConc ==
    \E r \in Slots :
        \/ \E request \in ConcRequests : Arrive(r, request)
        \/ Decode(r)
        \/ Parse(r)
        \/ VerifyToken(r)
        \/ ListZones(r)
        \/ ListRecords(r)
        \/ UpdateRecord(r)

SpecConc == InitFront /\ [][NextConc]_vars

\* the request of slot r has listed records of that name and type
Listed(r, name, type) ==
    \E k \in 1..Len(calls[r]) :
        /\ calls[r][k].op = "ListRecords"
        /\ SameName(calls[r][k].name, name)
        /\ calls[r][k].type = type

\* C20: under every interleaving of two concurrently handled requests, each remote
\* record's content is its initial value or the resolved IP of a request that
\* listed the record's name and type, its comment is its initial comment, its
\* proxied is its initial proxied (false if initially omitted), every provider call
\* of a request carries the credentials of that request, and a request that
\* completes with 200 has issued only updates carrying its own resolved IP.
C20_RequestsDoNotMix ==
    /\ \A id \in DOMAIN records :
        /\ \/ records[id].content = InitialContent(records[id].type)
           \/ \E r \in Slots :
                /\ pc[r] # "idle"
                /\ records[id].content = ResolvedIP(req[r])
                /\ Listed(r, records[id].name, records[id].type)
        /\ records[id].comment = ProfileOf(id).comment
        /\ SentProxied(records[id].proxied) = SentProxied(ProfileOf(id).proxied)
    /\ \A r \in Slots : \A k \in 1..Len(calls[r]) :
        calls[r][k].creds = constructClientOptions(req[r].authorization).value
    /\ \A r \in Slots :
        (Done(r) /\ resp[r] = OK200) =>
            \A k \in UpdateCalls(r) : calls[r][k].body.content = ResolvedIP(req[r])

\* two requests with different addresses and credentials arrived before either had
\* updated anything, both updated the first record, and both completed with 200
C20_Witness ==
    /\ Done(1) /\ resp[1] = OK200
    /\ Done(2) /\ resp[2] = OK200
    /\ pre[1] = pre[2]
    /\ ResolvedIP(req[1]) # ResolvedIP(req[2])
    /\ req[1].authorization # req[2].authorization
    /\ \E k \in UpdateCalls(1) : calls[1][k].id = 1
    /\ \E k \in UpdateCalls(2) : calls[2][k].id = 1
    /\ records[1].content = ResolvedIP(req[1])

=============================================================================
